---- MODULE Spec2Model ----
(***************************************************************************)
(* The MQTT-SN wire codec of src/src/defs.rs: TryWrite / TryRead of Flags, *)
(* ReturnCode, the four bounded text types, the ten message variants,      *)
(* Message, ForwardedMessage and MaybeForwardedMessage, over the cursor    *)
(* contract of the `byte` crate (check_len, read, read_with, write).       *)
(*                                                                         *)
(* A byte is a number in 0..255, a slice is a sequence of bytes, a text is *)
(* the sequence of its UTF-8 bytes.  Offsets are 0-based as in the source; *)
(* sequences are 1-based.                                                  *)
(***************************************************************************)
EXTENDS Integers, Sequences, FiniteSets, TLC

VARIABLES pc, value, wire, wres, rres, entry

vars == <<pc, value, wire, wres, rres, entry>>

-----------------------------------------------------------------------------
(* byte::Result: Ok((value, size)), or one of byte::Error's three kinds; a *)
(* panic is a fourth outcome of a call.                                    *)

Ok(v, n) == [tag |-> "Ok", val |-> v, size |-> n]

Incomplete == [tag |-> "Err", kind |-> "Incomplete", err |-> "", off |-> 0]

BadOffset(o) == [tag |-> "Err", kind |-> "BadOffset", err |-> "", off |-> o]

BadInput(e) == [tag |-> "Err", kind |-> "BadInput", err |-> e, off |-> 0]

Panic(m) == [tag |-> "Panic", msg |-> m]

None == [tag |-> "None"]

\* `r?` and the rest of the function: anything but Ok returns early.
Try(r, K(_)) == IF r.tag # "Ok" THEN r ELSE K(r)

-----------------------------------------------------------------------------
(* Integer widths.  u8 arithmetic is modulo 2^8.  usize is modelled at the *)
(* narrowest pointer width Rust has (16 bits); on wider targets a wrapped  *)
(* difference is larger still, and beyond any slice's length all the same. *)

U8Modulus == 256

UsizeModulus == 65536

Min(a, b) == IF a < b THEN a ELSE b

\* `n as u8`: a cast truncates silently, with or without overflow checks.
as_u8(n) == n % U8Modulus

\* `a + b` on u8: panics when overflow checks are on (debug profile), wraps
\* when they are off (release profile).
u8_add(a, b, oc) ==
    IF a + b < U8Modulus THEN Ok(a + b, 0)
    ELSE IF oc THEN Panic("attempt to add with overflow")
    ELSE Ok((a + b) % U8Modulus, 0)

\* `a - b` on usize, likewise.
usize_sub(a, b, oc) ==
    IF a >= b THEN Ok(a - b, 0)
    ELSE IF oc THEN Panic("attempt to subtract with overflow")
    ELSE Ok(a - b + UsizeModulus, 0)

-----------------------------------------------------------------------------
(* The cursor contract of the byte crate.                                  *)

\* &bytes[offset..]
Slice(bytes, offset) == SubSeq(bytes, offset + 1, Len(bytes))

check_len(bytes, len) == IF Len(bytes) < len THEN Incomplete ELSE Ok(len, 0)

\* <u8 as TryRead>::try_read
u8_try_read(bytes) ==
    IF Len(bytes) < 1 THEN Incomplete ELSE Ok(bytes[1], 1)

\* <u16 as TryRead<Endian>>::try_read with byte::ctx::BE
u16_try_read_be(bytes) ==
    IF Len(bytes) < 2 THEN Incomplete ELSE Ok(bytes[1] * 256 + bytes[2], 2)

\* core::str::from_utf8 accepts exactly the well-formed UTF-8 sequences.
IsCont(b) == 128 <= b /\ b <= 191

\* The continuation bytes a lead byte asks for; -1 for a byte that starts
\* no character.
LeadNeed(b) ==
    IF b < 128 THEN 0
    ELSE IF 194 <= b /\ b <= 223 THEN 1
    ELSE IF 224 <= b /\ b <= 239 THEN 2
    ELSE IF 240 <= b /\ b <= 244 THEN 3
    ELSE -1

\* The first continuation byte is narrowed after E0, ED, F0 and F4 (no
\* overlong forms, no surrogates, nothing above U+10FFFF).
SecondOk(b, c) ==
    CASE b = 224 -> 160 <= c /\ c <= 191
      [] b = 237 -> 128 <= c /\ c <= 159
      [] b = 240 -> 144 <= c /\ c <= 191
      [] b = 244 -> 128 <= c /\ c <= 143
      [] OTHER -> IsCont(c)

\* Every byte that is no continuation byte starts a character, followed by
\* exactly the continuation bytes it asks for; the text starts with one.
from_utf8_ok(s) ==
    /\ Len(s) > 0 => ~IsCont(s[1])
    /\ \A i \in 1..Len(s) :
          ~IsCont(s[i]) =>
              LET k == LeadNeed(s[i])
              IN  /\ k >= 0
                  /\ i + k <= Len(s)
                  /\ k >= 1 => SecondOk(s[i], s[i + 1])
                  /\ \A j \in 2..k : IsCont(s[i + j])
                  /\ i + k + 1 <= Len(s) => ~IsCont(s[i + k + 1])

\* <&str as TryRead<Str>>::try_read with byte::ctx::Str::Len(len)
str_try_read_len(bytes, len) ==
    IF Len(bytes) < len THEN Incomplete
    ELSE IF ~from_utf8_ok(SubSeq(bytes, 1, len))
         THEN BadInput("UTF8 Error")
    ELSE Ok(SubSeq(bytes, 1, len), len)

\* bytes.read(offset) / bytes.read_with(offset, ctx): try_read on
\* &bytes[*offset..]; the caller adds the size to its offset.
\* A BadOffset from the inner call is reported from the outer slice's start.
Rebase(r, offset) ==
    IF r.tag = "Err" /\ r.kind = "BadOffset" THEN BadOffset(offset + r.off)
    ELSE r

Read(bytes, offset, R(_)) ==
    IF offset > Len(bytes) THEN BadOffset(offset)
    ELSE Rebase(R(Slice(bytes, offset)), offset)

\* <u8 as TryWrite>::try_write into a slice with `room` bytes left
u8_try_write(b, room) == IF room < 1 THEN Incomplete ELSE Ok(<<b>>, 1)

\* <u16 as TryWrite<Endian>>::try_write with byte::ctx::BE
u16_try_write_be(v, room) ==
    IF room < 2 THEN Incomplete ELSE Ok(<<v \div 256, v % 256>>, 2)

\* <&str as TryWrite>::try_write: the raw bytes of the text
str_try_write(s, room) == IF room < Len(s) THEN Incomplete ELSE Ok(s, Len(s))

\* `let offset = &mut 0`: nothing written yet
Start == Ok(<<>>, 0)

\* bytes.write(offset, v)? after the writes `w`: try_write into
\* &mut bytes[*offset..], the bytes appended and the offset advanced.
\* The bytes of one more write `r` after the writes `w`.
Advance(w, r) ==
    IF r.tag = "Ok" THEN Ok(w.val \o r.val, w.size + r.size)
    ELSE Rebase(r, w.size)

Write(w, room, W(_)) ==
    IF w.tag # "Ok" THEN w
    ELSE IF w.size > room THEN BadOffset(w.size)
    ELSE Advance(w, W(room - w.size))

-----------------------------------------------------------------------------
(* Flags: one byte, written and read verbatim.                             *)

Flags_try_write(self, room) == Write(Start, room, LAMBDA r : u8_try_write(self, r))

Flags_try_read(bytes) ==
    Try(Read(bytes, 0, u8_try_read), LAMBDA b : Ok(b.val, 1))

-----------------------------------------------------------------------------
(* ReturnCode / RejectedReason.  A value is <<"Accepted">>,                *)
(* <<"Rejected", reason>> with a named reason, or                          *)
(* <<"Rejected", "Reserved", n>>.                                          *)

Accepted == <<"Accepted">>

Rejected(reason) == <<"Rejected", reason>>

Reserved(n) == <<"Rejected", "Reserved", n>>

ReturnCode_byte(self) ==
    IF self = Accepted THEN 0
    ELSE IF self = Rejected("Congestion") THEN 1
    ELSE IF self = Rejected("InvalidTopicId") THEN 2
    ELSE IF self = Rejected("NotSupported") THEN 3
    ELSE self[3]

ReturnCode_try_write(self, room) ==
    Write(Start, room, LAMBDA r : u8_try_write(ReturnCode_byte(self), r))

\* A faulty variant: an unnamed code keeps only its low seven bits.
ReturnCode_of_byte_masked(n) ==
    CASE n = 0 -> Accepted
      [] n = 1 -> Rejected("Congestion")
      [] n = 2 -> Rejected("InvalidTopicId")
      [] n = 3 -> Rejected("NotSupported")
      [] OTHER -> Reserved(n % 128)

ReturnCode_of_byte(n) ==
    CASE n = 0 -> Accepted
      [] n = 1 -> Rejected("Congestion")
      [] n = 2 -> Rejected("InvalidTopicId")
      [] n = 3 -> Rejected("NotSupported")
      [] OTHER -> Reserved(n)

ReturnCode_try_read(bytes) ==
    Try(Read(bytes, 0, u8_try_read),
        LAMBDA b : Ok(ReturnCode_of_byte(b.val), b.size))

-----------------------------------------------------------------------------
(* The bounded text types: heapless::String<N> newtypes.  try_read takes   *)
(* the length from its caller, reads that many bytes as UTF-8 and pushes   *)
(* them into an empty String<N>; push_str fails when they do not fit.      *)

WirelessNodeIdCapacity == 16

ClientIdCapacity == 64

TopicNameCapacity == 256

PublishDataCapacity == 256

\* A faulty variant: a text that does not fit is cut to the capacity instead
\* of being refused.
BoundedText_try_read_truncating(bytes, len, cap, err) ==
    Try(Read(bytes, 0, LAMBDA b : str_try_read_len(b, len)), LAMBDA s :
    Ok(SubSeq(s.val, 1, Min(Len(s.val), cap)), s.size))

\* s.push_str(bytes.read_with(offset, Str::Len(len))?).map_err(..)? on an
\* empty String of capacity `cap`
BoundedText_try_read(bytes, len, cap, err) ==
    Try(Read(bytes, 0, LAMBDA b : str_try_read_len(b, len)), LAMBDA s :
    IF Len(s.val) > cap THEN BadInput(err)
    ELSE Ok(s.val, s.size))

WirelessNodeId_try_read(bytes, len) ==
    BoundedText_try_read(bytes, len, WirelessNodeIdCapacity,
                         "wireless_node_id longer than 16 bytes")

ClientId_try_read(bytes, len) ==
    BoundedText_try_read(bytes, len, ClientIdCapacity,
                         "client_id longer than 64 bytes")

TopicName_try_read(bytes, len) ==
    BoundedText_try_read(bytes, len, TopicNameCapacity,
                         "topic_name longer than 256 bytes")

PublishData_try_read(bytes, len) ==
    BoundedText_try_read(bytes, len, PublishDataCapacity,
                         "data longer than 256 bytes")

-----------------------------------------------------------------------------
(* The message variants.  A message is a record whose `type` names the     *)
(* variant of the Message enum, with the variant's fields beside it.       *)

SearchGw_try_write(self, room) ==
    LET o1 == Write(Start, room, LAMBDA r : u8_try_write(3, r))
        o2 == Write(o1, room, LAMBDA r : u8_try_write(1, r))
    IN  Write(o2, room, LAMBDA r : u8_try_write(self.radius, r))

SearchGw_try_read(bytes) ==
    Try(Read(bytes, 0, u8_try_read), LAMBDA len :
    Try(check_len(bytes, len.val), LAMBDA chk :
    LET o2 == len.size + 1 IN
    Try(Read(bytes, o2, u8_try_read), LAMBDA radius :
    Ok([type |-> "SearchGw", radius |-> radius.val], o2 + radius.size))))

GwInfo_try_write(self, room) ==
    LET o1 == Write(Start, room, LAMBDA r : u8_try_write(3, r))
        o2 == Write(o1, room, LAMBDA r : u8_try_write(2, r))
    IN  Write(o2, room, LAMBDA r : u8_try_write(self.gw_id, r))

GwInfo_try_read(bytes) ==
    Try(Read(bytes, 0, u8_try_read), LAMBDA len :
    Try(check_len(bytes, len.val), LAMBDA chk :
    LET o2 == len.size + 1 IN
    Try(Read(bytes, o2, u8_try_read), LAMBDA gw_id :
    Ok([type |-> "GwInfo", gw_id |-> gw_id.val], o2 + gw_id.size))))

Connect_try_write(self, room, oc) ==
    Try(u8_add(6, as_u8(Len(self.client_id)), oc), LAMBDA len :
    LET o1 == Write(Start, room, LAMBDA r : u8_try_write(len.val, r))
        o2 == Write(o1, room, LAMBDA r : u8_try_write(4, r))
        o3 == Write(o2, room, LAMBDA r : Flags_try_write(self.flags, r))
        o4 == Write(o3, room, LAMBDA r : u8_try_write(1, r))
        o5 == Write(o4, room, LAMBDA r : u16_try_write_be(self.duration, r))
    IN  Write(o5, room, LAMBDA r : str_try_write(self.client_id, r)))

Connect_try_read(bytes, oc) ==
    Try(Read(bytes, 0, u8_try_read), LAMBDA len :
    Try(check_len(bytes, len.val), LAMBDA chk :
    IF len.val < 6 THEN BadInput("Connect len must be >= 6 bytes") ELSE
    LET o2 == len.size + 1 IN
    Try(Read(bytes, o2, Flags_try_read), LAMBDA flags :
    LET o3 == o2 + flags.size IN
    Try(Read(bytes, o3, u8_try_read), LAMBDA protocol_id :
    LET o4 == o3 + protocol_id.size IN
    Try(Read(bytes, o4, u16_try_read_be), LAMBDA duration :
    LET o5 == o4 + duration.size IN
    Try(usize_sub(len.val, 6, oc), LAMBDA n :
    Try(Read(bytes, o5, LAMBDA b : ClientId_try_read(b, n.val)), LAMBDA client_id :
    Ok([type |-> "Connect", flags |-> flags.val, duration |-> duration.val,
        client_id |-> client_id.val], o5 + client_id.size))))))))

ConnAck_try_write(self, room) ==
    LET o1 == Write(Start, room, LAMBDA r : u8_try_write(3, r))
        o2 == Write(o1, room, LAMBDA r : u8_try_write(5, r))
    IN  Write(o2, room, LAMBDA r : ReturnCode_try_write(self.code, r))

ConnAck_try_read(bytes) ==
    Try(Read(bytes, 0, u8_try_read), LAMBDA len :
    Try(check_len(bytes, len.val), LAMBDA chk :
    LET o2 == len.size + 1 IN
    Try(Read(bytes, o2, ReturnCode_try_read), LAMBDA code :
    Ok([type |-> "ConnAck", code |-> code.val], o2 + code.size))))

Register_try_write(self, room, oc) ==
    Try(u8_add(6, as_u8(Len(self.topic_name)), oc), LAMBDA len :
    LET o1 == Write(Start, room, LAMBDA r : u8_try_write(len.val, r))
        o2 == Write(o1, room, LAMBDA r : u8_try_write(10, r))
        o3 == Write(o2, room, LAMBDA r : u16_try_write_be(self.topic_id, r))
        o4 == Write(o3, room, LAMBDA r : u16_try_write_be(self.msg_id, r))
    IN  Write(o4, room, LAMBDA r : str_try_write(self.topic_name, r)))

Register_try_read(bytes, oc) ==
    Try(Read(bytes, 0, u8_try_read), LAMBDA len :
    Try(check_len(bytes, len.val), LAMBDA chk :
    IF len.val < 6 THEN BadInput("Register len must be >= 6 bytes") ELSE
    LET o2 == len.size + 1 IN
    Try(Read(bytes, o2, u16_try_read_be), LAMBDA topic_id :
    LET o3 == o2 + topic_id.size IN
    Try(Read(bytes, o3, u16_try_read_be), LAMBDA msg_id :
    LET o4 == o3 + msg_id.size IN
    Try(usize_sub(len.val, 6, oc), LAMBDA n :
    Try(Read(bytes, o4, LAMBDA b : TopicName_try_read(b, n.val)), LAMBDA topic_name :
    Ok([type |-> "Register", topic_id |-> topic_id.val, msg_id |-> msg_id.val,
        topic_name |-> topic_name.val], o4 + topic_name.size)))))))

RegAck_try_write(self, room) ==
    LET o1 == Write(Start, room, LAMBDA r : u8_try_write(7, r))
        o2 == Write(o1, room, LAMBDA r : u8_try_write(11, r))
        o3 == Write(o2, room, LAMBDA r : u16_try_write_be(self.topic_id, r))
        o4 == Write(o3, room, LAMBDA r : u16_try_write_be(self.msg_id, r))
    IN  Write(o4, room, LAMBDA r : ReturnCode_try_write(self.code, r))

RegAck_try_read(bytes) ==
    Try(Read(bytes, 0, u8_try_read), LAMBDA len :
    Try(check_len(bytes, len.val), LAMBDA chk :
    LET o2 == len.size + 1 IN
    Try(Read(bytes, o2, u16_try_read_be), LAMBDA topic_id :
    LET o3 == o2 + topic_id.size IN
    Try(Read(bytes, o3, u16_try_read_be), LAMBDA msg_id :
    LET o4 == o3 + msg_id.size IN
    Try(Read(bytes, o4, ReturnCode_try_read), LAMBDA code :
    Ok([type |-> "RegAck", topic_id |-> topic_id.val, msg_id |-> msg_id.val,
        code |-> code.val], o4 + code.size))))))

Publish_try_write(self, room, oc) ==
    Try(u8_add(7, as_u8(Len(self.data)), oc), LAMBDA len :
    LET o1 == Write(Start, room, LAMBDA r : u8_try_write(len.val, r))
        o2 == Write(o1, room, LAMBDA r : u8_try_write(12, r))
        o3 == Write(o2, room, LAMBDA r : Flags_try_write(self.flags, r))
        o4 == Write(o3, room, LAMBDA r : u16_try_write_be(self.topic_id, r))
        o5 == Write(o4, room, LAMBDA r : u16_try_write_be(self.msg_id, r))
    IN  Write(o5, room, LAMBDA r : str_try_write(self.data, r)))

Publish_try_read(bytes, oc) ==
    Try(Read(bytes, 0, u8_try_read), LAMBDA len :
    Try(check_len(bytes, len.val), LAMBDA chk :
    IF len.val < 7 THEN BadInput("Publish len must be >= 6 bytes") ELSE
    LET o2 == len.size + 1 IN
    Try(Read(bytes, o2, Flags_try_read), LAMBDA flags :
    LET o3 == o2 + flags.size IN
    Try(Read(bytes, o3, u16_try_read_be), LAMBDA topic_id :
    LET o4 == o3 + topic_id.size IN
    Try(Read(bytes, o4, u16_try_read_be), LAMBDA msg_id :
    LET o5 == o4 + msg_id.size IN
    Try(usize_sub(len.val, 7, oc), LAMBDA n :
    Try(Read(bytes, o5, LAMBDA b : PublishData_try_read(b, n.val)), LAMBDA data :
    Ok([type |-> "Publish", flags |-> flags.val, topic_id |-> topic_id.val,
        msg_id |-> msg_id.val, data |-> data.val], o5 + data.size))))))))

PubAck_try_write(self, room) ==
    LET o1 == Write(Start, room, LAMBDA r : u8_try_write(7, r))
        o2 == Write(o1, room, LAMBDA r : u8_try_write(13, r))
        o3 == Write(o2, room, LAMBDA r : u16_try_write_be(self.topic_id, r))
        o4 == Write(o3, room, LAMBDA r : u16_try_write_be(self.msg_id, r))
    IN  Write(o4, room, LAMBDA r : ReturnCode_try_write(self.code, r))

\* No check_len and no minimum: the length byte is read and dropped.
PubAck_try_read(bytes) ==
    Try(Read(bytes, 0, u8_try_read), LAMBDA len :
    LET o2 == len.size + 1 IN
    Try(Read(bytes, o2, u16_try_read_be), LAMBDA topic_id :
    LET o3 == o2 + topic_id.size IN
    Try(Read(bytes, o3, u16_try_read_be), LAMBDA msg_id :
    LET o4 == o3 + msg_id.size IN
    Try(Read(bytes, o4, ReturnCode_try_read), LAMBDA code :
    Ok([type |-> "PubAck", topic_id |-> topic_id.val, msg_id |-> msg_id.val,
        code |-> code.val], o4 + code.size)))))

PingReq_try_write(self, room, oc) ==
    Try(u8_add(2, as_u8(Len(self.client_id)), oc), LAMBDA len :
    LET o1 == Write(Start, room, LAMBDA r : u8_try_write(len.val, r))
        o2 == Write(o1, room, LAMBDA r : u8_try_write(22, r))
    IN  Write(o2, room, LAMBDA r : str_try_write(self.client_id, r)))

PingReq_try_read(bytes, oc) ==
    Try(Read(bytes, 0, u8_try_read), LAMBDA len :
    Try(check_len(bytes, len.val), LAMBDA chk :
    IF len.val < 2 THEN BadInput("Len must be at least 2 bytes") ELSE
    LET o2 == len.size + 1 IN
    Try(usize_sub(len.val, 2, oc), LAMBDA n :
    Try(Read(bytes, o2, LAMBDA b : ClientId_try_read(b, n.val)), LAMBDA client_id :
    Ok([type |-> "PingReq", client_id |-> client_id.val], o2 + client_id.size)))))

PingResp_try_write(self, room) ==
    LET o1 == Write(Start, room, LAMBDA r : u8_try_write(2, r))
    IN  Write(o1, room, LAMBDA r : u8_try_write(23, r))

PingResp_try_read(bytes) ==
    Try(Read(bytes, 0, u8_try_read), LAMBDA len :
    Try(check_len(bytes, len.val), LAMBDA chk :
    Ok([type |-> "PingResp"], len.size + 1)))

-----------------------------------------------------------------------------
(* Message: dispatch on the variant (write) or on the type byte at offset  *)
(* 1, peeked without moving the offset (read).                             *)

Message_try_write(self, room, oc) ==
    Write(Start, room,
          LAMBDA r :
            CASE self.type = "SearchGw" -> SearchGw_try_write(self, r)
              [] self.type = "GwInfo" -> GwInfo_try_write(self, r)
              [] self.type = "Connect" -> Connect_try_write(self, r, oc)
              [] self.type = "ConnAck" -> ConnAck_try_write(self, r)
              [] self.type = "Register" -> Register_try_write(self, r, oc)
              [] self.type = "RegAck" -> RegAck_try_write(self, r)
              [] self.type = "Publish" -> Publish_try_write(self, r, oc)
              [] self.type = "PubAck" -> PubAck_try_write(self, r)
              [] self.type = "PingReq" -> PingReq_try_write(self, r, oc)
              [] self.type = "PingResp" -> PingResp_try_write(self, r))

\* A faulty variant: the type is taken from offset 0, the length byte.
Message_try_read_peek0(bytes, oc) ==
    Try(Read(bytes, 0, u8_try_read), LAMBDA t :
    CASE t.val = 1 -> Read(bytes, 0, SearchGw_try_read)
      [] t.val = 2 -> Read(bytes, 0, GwInfo_try_read)
      [] t.val = 4 -> Read(bytes, 0, LAMBDA b : Connect_try_read(b, oc))
      [] t.val = 5 -> Read(bytes, 0, ConnAck_try_read)
      [] t.val = 10 -> Read(bytes, 0, LAMBDA b : Register_try_read(b, oc))
      [] t.val = 11 -> Read(bytes, 0, RegAck_try_read)
      [] t.val = 12 -> Read(bytes, 0, LAMBDA b : Publish_try_read(b, oc))
      [] t.val = 13 -> Read(bytes, 0, PubAck_try_read)
      [] t.val = 22 -> Read(bytes, 0, LAMBDA b : PingReq_try_read(b, oc))
      [] t.val = 23 -> Read(bytes, 0, PingResp_try_read)
      [] OTHER -> BadInput("Recieved a message with unknown type"))

Message_try_read(bytes, oc) ==
    Try(Read(bytes, 0 + 1, u8_try_read), LAMBDA t :
    CASE t.val = 1 -> Read(bytes, 0, SearchGw_try_read)
      [] t.val = 2 -> Read(bytes, 0, GwInfo_try_read)
      [] t.val = 4 -> Read(bytes, 0, LAMBDA b : Connect_try_read(b, oc))
      [] t.val = 5 -> Read(bytes, 0, ConnAck_try_read)
      [] t.val = 10 -> Read(bytes, 0, LAMBDA b : Register_try_read(b, oc))
      [] t.val = 11 -> Read(bytes, 0, RegAck_try_read)
      [] t.val = 12 -> Read(bytes, 0, LAMBDA b : Publish_try_read(b, oc))
      [] t.val = 13 -> Read(bytes, 0, PubAck_try_read)
      [] t.val = 22 -> Read(bytes, 0, LAMBDA b : PingReq_try_read(b, oc))
      [] t.val = 23 -> Read(bytes, 0, PingResp_try_read)
      [] OTHER -> BadInput("Recieved a message with unknown type"))

-----------------------------------------------------------------------------
(* ForwardedMessage: [ctrl, wireless_node_id, message], the envelope with  *)
(* type byte 0xFE around a complete Message frame.                         *)

ForwardedMessage_try_write(self, room, oc) ==
    Try(u8_add(3, as_u8(Len(self.wireless_node_id)), oc), LAMBDA len :
    LET o1 == Write(Start, room, LAMBDA r : u8_try_write(len.val, r))
        o2 == Write(o1, room, LAMBDA r : u8_try_write(254, r))
        o3 == Write(o2, room, LAMBDA r : u8_try_write(self.ctrl, r))
        o4 == Write(o3, room, LAMBDA r : str_try_write(self.wireless_node_id, r))
    IN  Write(o4, room, LAMBDA r : Message_try_write(self.message, r, oc)))

\* No check_len and no minimum before `len as usize - 3`.
ForwardedMessage_try_read(bytes, oc) ==
    Try(Read(bytes, 0, u8_try_read), LAMBDA len :
    LET o1 == len.size IN
    Try(Read(bytes, o1, u8_try_read), LAMBDA msg_type :
    LET o2 == o1 + msg_type.size IN
    Try(Read(bytes, o2, u8_try_read), LAMBDA ctrl :
    LET o3 == o2 + ctrl.size IN
    Try(usize_sub(len.val, 3, oc), LAMBDA n :
    Try(Read(bytes, o3, LAMBDA b : WirelessNodeId_try_read(b, n.val)), LAMBDA wireless_node_id :
    LET o4 == o3 + wireless_node_id.size IN
    Try(Read(bytes, o4, LAMBDA b : Message_try_read(b, oc)), LAMBDA message :
    Ok([ctrl |-> ctrl.val, wireless_node_id |-> wireless_node_id.val,
        message |-> message.val], o4 + message.size)))))))

-----------------------------------------------------------------------------
(* MaybeForwardedMessage: [variant, inner], variant "ForwardedMessage" or  *)
(* "Message".                                                              *)

MaybeForwardedMessage_try_write(self, room, oc) ==
    Write(Start, room,
          LAMBDA r :
            IF self.variant = "ForwardedMessage"
            THEN ForwardedMessage_try_write(self.inner, r, oc)
            ELSE Message_try_write(self.inner, r, oc))

\* A faulty variant: every type byte from 0xFE up is taken for the envelope.
MaybeForwardedMessage_try_read_ge(bytes, oc) ==
    Try(check_len(bytes, 2), LAMBDA chk :
    Try(Read(bytes, 1, u8_try_read), LAMBDA msg_type :
    IF msg_type.val >= 254
    THEN Try(Read(bytes, 0, LAMBDA b : ForwardedMessage_try_read(b, oc)),
             LAMBDA fw_msg :
               Ok([variant |-> "ForwardedMessage", inner |-> fw_msg.val],
                  fw_msg.size))
    ELSE Try(Read(bytes, 0, LAMBDA b : Message_try_read(b, oc)),
             LAMBDA msg :
               Ok([variant |-> "Message", inner |-> msg.val], msg.size))))

MaybeForwardedMessage_try_read(bytes, oc) ==
    Try(check_len(bytes, 2), LAMBDA chk :
    Try(Read(bytes, 1, u8_try_read), LAMBDA msg_type :
    IF msg_type.val = 254
    THEN Try(Read(bytes, 0, LAMBDA b : ForwardedMessage_try_read(b, oc)),
             LAMBDA fw_msg :
               Ok([variant |-> "ForwardedMessage", inner |-> fw_msg.val],
                  fw_msg.size))
    ELSE Try(Read(bytes, 0, LAMBDA b : Message_try_read(b, oc)),
             LAMBDA msg :
               Ok([variant |-> "Message", inner |-> msg.val], msg.size))))

-----------------------------------------------------------------------------
(* The values a caller can construct.                                      *)

\* The longest text tried; each text type caps it at its own capacity.
MaxTextLen == 256

\* The caller's buffer, large enough for every frame.
BufLen == 300

Fill(n, b) == [i \in 1..n |-> b]

\* "a" repeated, and one text with a two-byte character ("te'" with e-acute)
Texts(cap) ==
    {Fill(n, 97) : n \in 0..Min(cap, MaxTextLen)}
        \cup {t \in {<<116, 195, 169>>} : Len(t) <= cap}

SampleU8 == {0, 18, 255}

SampleU16 == {4660, 22136}

ReturnCodes ==
    {Accepted, Rejected("Congestion"), Rejected("InvalidTopicId"),
     Rejected("NotSupported")} \cup {Reserved(n) : n \in {0, 3, 4, 18, 255}}

FixedMessages ==
    {[type |-> "SearchGw", radius |-> r] : r \in SampleU8}
        \cup {[type |-> "GwInfo", gw_id |-> g] : g \in SampleU8}
        \cup {[type |-> "ConnAck", code |-> c] : c \in ReturnCodes}
        \cup {[type |-> "RegAck", topic_id |-> 4660, msg_id |-> m, code |-> c] :
                m \in SampleU16, c \in ReturnCodes}
        \cup {[type |-> "PubAck", topic_id |-> t, msg_id |-> 22136, code |-> c] :
                t \in SampleU16, c \in ReturnCodes}
        \cup {[type |-> "PingResp"]}

TextMessages ==
    {[type |-> "Connect", flags |-> 18, duration |-> 13398, client_id |-> s] :
        s \in Texts(ClientIdCapacity)}
        \cup {[type |-> "Register", topic_id |-> 4660, msg_id |-> 22136,
               topic_name |-> s] : s \in Texts(TopicNameCapacity)}
        \cup {[type |-> "Publish", flags |-> 18, topic_id |-> 4660,
               msg_id |-> 22136, data |-> s] : s \in Texts(PublishDataCapacity)}
        \cup {[type |-> "PingReq", client_id |-> s] : s \in Texts(ClientIdCapacity)}

Messages == FixedMessages \cup TextMessages

IsForwarded(v) == "ctrl" \in DOMAIN v

IsMessage(v) == "type" \in DOMAIN v

TextOf(m) ==
    CASE m.type = "Connect" -> m.client_id
      [] m.type = "PingReq" -> m.client_id
      [] m.type = "Register" -> m.topic_name
      [] m.type = "Publish" -> m.data
      [] OTHER -> <<>>

\* The longest nested text tried under every wireless node id; under the id
\* "test-node" every message is tried.
MaxNestedTextLen == 1

ForwardedMessages ==
    {[ctrl |-> 0, wireless_node_id |-> <<116, 101, 115, 116, 45, 110, 111, 100, 101>>,
      message |-> m] : m \in Messages}
        \cup {[ctrl |-> c, wireless_node_id |-> w, message |-> m] :
                c \in {0, 3}, w \in Texts(WirelessNodeIdCapacity),
                m \in {x \in Messages : Len(TextOf(x)) <= MaxNestedTextLen}}

-----------------------------------------------------------------------------
(* The codec in use: a caller constructs a value, writes it into its       *)
(* buffer and hands the written bytes, whole or with the last byte cut     *)
(* off, to one of the three decoders.  Overflow checks are a property of   *)
(* the build that runs a call; each call may run in either build.          *)

Init ==
    /\ pc = "new"
    /\ value \in Messages \cup ForwardedMessages
    /\ wire = <<>>
    /\ wres = None
    /\ rres = None
    /\ entry = "none"

Written(r) ==
    /\ wres' = r
    /\ wire' = IF r.tag = "Ok" THEN r.val ELSE <<>>
    /\ pc' = IF r.tag = "Ok" THEN "written" ELSE "failed"
    /\ UNCHANGED <<value, rres, entry>>

WriteMessage ==
    /\ pc = "new"
    /\ IsMessage(value)
    /\ \E oc \in BOOLEAN : Written(Message_try_write(value, BufLen, oc))

WriteForwardedMessage ==
    /\ pc = "new"
    /\ IsForwarded(value)
    /\ \E oc \in BOOLEAN : Written(ForwardedMessage_try_write(value, BufLen, oc))

DropLastByte ==
    /\ pc = "written"
    /\ Len(wire) > 0
    /\ wire' = SubSeq(wire, 1, Len(wire) - 1)
    /\ pc' = "cut"
    /\ UNCHANGED <<value, wres, rres, entry>>

Readable == pc \in {"written", "cut", "received"}

ReadDone(e, r) ==
    /\ rres' = r
    /\ entry' = e
    /\ pc' = "read"
    /\ UNCHANGED <<value, wire, wres>>

ReadMessage ==
    /\ Readable
    /\ \E oc \in BOOLEAN : ReadDone("Message", Message_try_read(wire, oc))

ReadForwardedMessage ==
    /\ Readable
    /\ \E oc \in BOOLEAN :
          ReadDone("ForwardedMessage", ForwardedMessage_try_read(wire, oc))

ReadMaybeForwardedMessage ==
    /\ Readable
    /\ \E oc \in BOOLEAN :
          ReadDone("MaybeForwardedMessage",
                   MaybeForwardedMessage_try_read(wire, oc))

Next ==
    \/ WriteMessage
    \/ WriteForwardedMessage
    \/ DropLastByte
    \/ ReadMessage
    \/ ReadForwardedMessage
    \/ ReadMaybeForwardedMessage

Spec == Init /\ [][Next]_vars

-----------------------------------------------------------------------------
(* The decoders on bytes of unknown provenance: a slice arrives from the   *)
(* transport and is handed to one of the three decoders.  A slice is a     *)
(* length byte, a type byte, a body of one repeated byte and, behind it,   *)
(* nothing or a PingResp frame; or it is shorter than two bytes.           *)

\* How far the slice's size may differ from its length byte, either way.
MaxSlack == 1

\* Every length byte up to this one is tried, and the largest one.  The
\* code's thresholds (the minimum lengths 2..7, and header size plus text
\* capacity: 19, 66, 70) all lie below it.
MaxDenseLen == 80

LenBytes == {l \in 0..(U8Modulus - 1) : l <= MaxDenseLen \/ l = U8Modulus - 1}

TypeTags == {1, 2, 4, 5, 10, 11, 12, 13, 22, 23}

ForwardedTag == 254

TypeBytes == TypeTags \cup {ForwardedTag} \cup {3, 255}

\* "a", and a byte no UTF-8 text holds
FillBytes == {97, 255}

\* Sizes of the whole slice for the length byte l: around l, and 7, which
\* holds the fixed fields of every variant.
SliceSizes(l) == {n \in (l - MaxSlack)..(l + MaxSlack) : n >= 2} \cup {7}

RawFrames(l) ==
    {<<l, t>> \o Fill(n - 2, b) :
        t \in TypeBytes, b \in FillBytes, n \in SliceSizes(l)}
        \cup {<<l, t>> \o Fill(n - 2, b) \o <<2, 23>> :
                t \in {ForwardedTag, 255}, b \in FillBytes, n \in SliceSizes(l)}

RawInputs ==
    {<<>>} \cup {<<l>> : l \in {0, 1, 2, 255}}
        \cup UNION {RawFrames(l) : l \in LenBytes}

InitWire ==
    /\ pc = "received"
    /\ value = None
    /\ wire \in RawInputs
    /\ wres = None
    /\ rres = None
    /\ entry = "none"

NextWire ==
    \/ ReadMessage
    \/ ReadForwardedMessage
    \/ ReadMaybeForwardedMessage

SpecWire == InitWire /\ [][NextWire]_vars

-----------------------------------------------------------------------------
(* Properties of the codec in use (Spec).                                  *)

\* The slice read was everything the write produced.
ReadWhole(e) == pc = "read" /\ entry = e /\ wire = wres.val

\* The slice read was what the write produced, less its last byte.
ReadCut(e) ==
    /\ pc = "read"
    /\ entry = e
    /\ wire = SubSeq(wres.val, 1, Len(wres.val) - 1)

\* C1: every constructible Message, of each variant and with every text
\* length up to its capacity, is encoded successfully into a large enough
\* buffer, and decoding the written bytes as a Message gives it back.
C1_RoundTrip ==
    IsMessage(value) =>
        /\ pc # "failed"
        /\ ReadWhole("Message") => rres.tag = "Ok" /\ rres.val = value

\* C2: the first byte an encoded Message frame holds, its length byte, is
\* the number of bytes the encoder reports as written.
C2_LengthByteIsFrameSize ==
    (IsMessage(value) /\ pc = "written") =>
        /\ wres.size = Len(wire)
        /\ wire[1] = wres.size

\* C3: a frame encoded from a Message or a ForwardedMessage, with its last
\* byte removed, is rejected by its decoder as too short (Incomplete).
C3_TruncatedFrameIncomplete ==
    /\ (IsMessage(value) /\ ReadCut("Message")) => rres = Incomplete
    /\ (IsForwarded(value) /\ ReadCut("ForwardedMessage")) => rres = Incomplete

\* C10: a ForwardedMessage is encoded as [3 + id length, 0xFE, ctrl, id]
\* followed by the nested message's complete frame, whatever the nested
\* variant, and decoding those bytes as a ForwardedMessage gives it back.
C10_ForwardedRoundTrip ==
    IsForwarded(value) =>
        /\ pc # "failed"
        /\ pc = "written" =>
              /\ SubSeq(wire, 1, 3 + Len(value.wireless_node_id)) =
                    <<3 + Len(value.wireless_node_id), 254, value.ctrl>>
                        \o value.wireless_node_id
              /\ \E oc \in BOOLEAN :
                    Message_try_write(value.message, BufLen, oc) =
                        Ok(Slice(wire, 3 + Len(value.wireless_node_id)),
                           Len(wire) - 3 - Len(value.wireless_node_id))
        /\ ReadWhole("ForwardedMessage") => rres.tag = "Ok" /\ rres.val = value

-----------------------------------------------------------------------------
(* Properties of the decoders on arbitrary bytes (SpecWire).               *)

\* The slice read has a length byte and a type byte.
Framed == pc = "read" /\ Len(wire) >= 2

LenByte == wire[1]

TypeByte == wire[2]

UnknownType == BadInput("Recieved a message with unknown type")

\* C4: through MaybeForwardedMessage, a slice of two bytes or more whose
\* second byte is no known type tag is rejected as an unknown message type,
\* whatever its length byte and its other bytes.
C4_UnknownTagRejected ==
    (Framed /\ entry = "MaybeForwardedMessage"
        /\ TypeByte \notin TypeTags \cup {ForwardedTag}) => rres = UnknownType

C4_Witness ==
    /\ Framed
    /\ entry = "MaybeForwardedMessage"
    /\ TypeByte = 3
    /\ LenByte = 1
    /\ Len(wire) = 7
    /\ rres = UnknownType

\* The minimum frame length the specification gives each variant.
StatedMinLen(t) ==
    CASE t \in {1, 2, 5} -> 3
      [] t \in {4, 10} -> 6
      [] t \in {11, 12, 13} -> 7
      [] t \in {22, 23} -> 2

LengthViolations ==
    {"Connect len must be >= 6 bytes", "Register len must be >= 6 bytes",
     "Publish len must be >= 6 bytes", "Len must be at least 2 bytes"}

\* C5: a frame of any of the ten variants whose length byte is below the
\* variant's minimum is rejected with a length-violation error, also when
\* the slice holds all of the variant's fixed fields.
C5_BelowMinimumRejected ==
    (Framed /\ entry = "Message" /\ TypeByte \in TypeTags
        /\ LenByte < StatedMinLen(TypeByte)
        /\ Len(wire) >= StatedMinLen(TypeByte))
    => (rres.tag = "Err" /\ rres.kind = "BadInput" /\ rres.err \in LengthViolations)

\* C6: a slice that holds fewer bytes than its length byte says is rejected
\* as too short (Incomplete) by every variant's decoder and by the
\* envelope's; no message is returned.
C6_ShortSliceIncomplete ==
    (Framed /\ Len(wire) < LenByte
        /\ \/ entry = "Message" /\ TypeByte \in TypeTags
           \/ entry = "ForwardedMessage" /\ TypeByte = ForwardedTag)
    => rres = Incomplete

\* The frame's text tail: the bytes from the fixed header's end to the
\* length byte's end.
TextTail(header) == SubSeq(wire, header + 1, LenByte)

\* The slice read holds a whole frame of type t, decoded by e, whose text
\* tail, behind a fixed header of h bytes, is longer than cap.
OverCapacity(e, t, h, cap) ==
    /\ Framed
    /\ entry = e
    /\ TypeByte = t
    /\ Len(wire) >= LenByte
    /\ LenByte - h > cap

\* C7 as stated: a frame whose text tail is longer than its text type's
\* capacity is rejected with the too-long error of that text type.
C7_OverCapacityTextTooLong ==
    /\ OverCapacity("Message", 4, 6, ClientIdCapacity)
          => rres = BadInput("client_id longer than 64 bytes")
    /\ OverCapacity("Message", 22, 2, ClientIdCapacity)
          => rres = BadInput("client_id longer than 64 bytes")
    /\ OverCapacity("ForwardedMessage", ForwardedTag, 3, WirelessNodeIdCapacity)
          => rres = BadInput("wireless_node_id longer than 16 bytes")
    /\ OverCapacity("Message", 10, 6, TopicNameCapacity)
          => rres = BadInput("topic_name longer than 256 bytes")
    /\ OverCapacity("Message", 12, 7, PublishDataCapacity)
          => rres = BadInput("data longer than 256 bytes")

TooLongOrUtf8(header, err) ==
    rres = IF from_utf8_ok(TextTail(header)) THEN BadInput(err)
           ELSE BadInput("UTF8 Error")

\* The text of a decoded value, and the fixed header before it on the wire.
DecodedText(v) == IF IsForwarded(v) THEN v.wireless_node_id ELSE TextOf(v)

HeaderOf(v) ==
    IF IsForwarded(v) THEN 3
    ELSE CASE v.type \in {"Connect", "Register"} -> 6
           [] v.type = "Publish" -> 7
           [] OTHER -> 2

HasTextTail(v) ==
    IsForwarded(v) \/ v.type \in {"Connect", "Register", "Publish", "PingReq"}

\* C7, amended: a whole frame whose text tail is longer than its text
\* type's capacity is always rejected: with the too-long error when the
\* tail is well-formed UTF-8, with the UTF-8 error when it is not.  A text
\* is never cut short: a decoded text is the whole tail, within capacity.
C7_OverCapacityRejected ==
    /\ OverCapacity("Message", 4, 6, ClientIdCapacity)
          => TooLongOrUtf8(6, "client_id longer than 64 bytes")
    /\ OverCapacity("Message", 22, 2, ClientIdCapacity)
          => TooLongOrUtf8(2, "client_id longer than 64 bytes")
    /\ OverCapacity("ForwardedMessage", ForwardedTag, 3, WirelessNodeIdCapacity)
          => TooLongOrUtf8(3, "wireless_node_id longer than 16 bytes")
    /\ OverCapacity("Message", 10, 6, TopicNameCapacity)
          => TooLongOrUtf8(6, "topic_name longer than 256 bytes")
    /\ OverCapacity("Message", 12, 7, PublishDataCapacity)
          => TooLongOrUtf8(7, "data longer than 256 bytes")
    /\ (Framed /\ entry \in {"Message", "ForwardedMessage"} /\ rres.tag = "Ok"
          /\ HasTextTail(rres.val))
          => DecodedText(rres.val) = TextTail(HeaderOf(rres.val))

C7_Witness ==
    /\ OverCapacity("Message", 4, 6, ClientIdCapacity)
    /\ LenByte = 71
    /\ Len(wire) = 71
    /\ rres = BadInput("client_id longer than 64 bytes")

\* C8: every decode, of any bytes through any of the three decoders, ends
\* in a value or a returned error; none panics.
C8_DecodeNeverPanics == pc = "read" => rres.tag \in {"Ok", "Err"}

\* C9: MaybeForwardedMessage picks its alternative from the byte at offset 1
\* alone: fewer than two bytes fail; a decoded value is the ForwardedMessage
\* alternative exactly when that byte is 0xFE; and it is what the picked
\* decoder returns from offset 0, with that decoder's size.
C9_DispatchOnTypeByte ==
    (pc = "read" /\ entry = "MaybeForwardedMessage") =>
        /\ Len(wire) < 2 => rres.tag = "Err"
        /\ rres.tag = "Ok" =>
              /\ rres.val.variant = "ForwardedMessage" <=> TypeByte = ForwardedTag
              /\ rres.val.variant = "Message" <=> TypeByte # ForwardedTag
              /\ \E oc \in BOOLEAN :
                    Ok(rres.val.inner, rres.size) =
                        IF TypeByte = ForwardedTag
                        THEN ForwardedMessage_try_read(wire, oc)
                        ELSE Message_try_read(wire, oc)

C9_Witness ==
    /\ pc = "read"
    /\ entry = "MaybeForwardedMessage"
    /\ wire = <<3, 254, 97, 2, 23>>
    /\ rres = Ok([variant |-> "ForwardedMessage",
                  inner |-> [ctrl |-> 97, wireless_node_id |-> <<>>,
                             message |-> [type |-> "PingResp"]]], 5)

-----------------------------------------------------------------------------
(* The wire layout of an encoded Message (Spec).                           *)

\* A 16-bit field, high byte first.
BigEndian(v) == <<v \div 256, v % 256>>

\* The type tag and the fields behind it, as the wire format lays them out.
LayoutAfterLength(m) ==
    CASE m.type = "SearchGw" -> <<1, m.radius>>
      [] m.type = "GwInfo" -> <<2, m.gw_id>>
      [] m.type = "Connect" ->
            <<4, m.flags, 1>> \o BigEndian(m.duration) \o m.client_id
      [] m.type = "ConnAck" -> <<5, ReturnCode_byte(m.code)>>
      [] m.type = "Register" ->
            <<10>> \o BigEndian(m.topic_id) \o BigEndian(m.msg_id)
                \o m.topic_name
      [] m.type = "RegAck" ->
            <<11>> \o BigEndian(m.topic_id) \o BigEndian(m.msg_id)
                \o <<ReturnCode_byte(m.code)>>
      [] m.type = "Publish" ->
            <<12, m.flags>> \o BigEndian(m.topic_id) \o BigEndian(m.msg_id)
                \o m.data
      [] m.type = "PubAck" ->
            <<13>> \o BigEndian(m.topic_id) \o BigEndian(m.msg_id)
                \o <<ReturnCode_byte(m.code)>>
      [] m.type = "PingReq" -> <<22>> \o m.client_id
      [] m.type = "PingResp" -> <<23>>

\* C11: every Message is encoded, and its frame is exactly the length byte
\* (the frame's size in bytes, itself included), the variant's type tag and
\* the variant's fields in declared order, 16-bit fields high byte first,
\* Connect's protocol id 0x01, the text as its raw bytes and nothing more.
C11_WireLayout ==
    IsMessage(value) =>
        /\ pc # "failed"
        /\ pc = "written" =>
              wire = <<1 + Len(LayoutAfterLength(value))>>
                        \o LayoutAfterLength(value)

\* The frames whose size a length byte can hold.
FitsLengthByte(m) == 1 + Len(LayoutAfterLength(m)) < U8Modulus

-----------------------------------------------------------------------------
(* ReturnCode on its own (SpecCode): a caller constructs a code, writes it *)
(* and reads it back; or a byte arrives, is read, and the code read is     *)
(* written again.                                                          *)

\* Every value of the ReturnCode enum: Reserved holds any u8.
AllReturnCodes ==
    {Accepted, Rejected("Congestion"), Rejected("InvalidTopicId"),
     Rejected("NotSupported")} \cup {Reserved(n) : n \in 0..(U8Modulus - 1)}

\* Every first byte, alone and with a byte behind it; and the empty slice.
CodeInputs ==
    {<<>>} \cup {<<b>> : b \in 0..(U8Modulus - 1)}
        \cup {<<b, 97>> : b \in 0..(U8Modulus - 1)}

InitCode ==
    /\ \/ pc = "new" /\ value \in AllReturnCodes /\ wire = <<>>
       \/ pc = "received" /\ value = <<>> /\ wire \in CodeInputs
    /\ wres = None
    /\ rres = None
    /\ entry = "none"

WriteReturnCode ==
    /\ pc = "new"
    /\ Written(ReturnCode_try_write(value, BufLen))

ReadReturnCode ==
    /\ pc \in {"written", "received"}
    /\ ReadDone("ReturnCode", ReturnCode_try_read(wire))

\* The code just read from a received byte is written again.
WriteBackReturnCode ==
    /\ pc = "read"
    /\ wres = None
    /\ rres.tag = "Ok"
    /\ wres' = ReturnCode_try_write(rres.val, BufLen)
    /\ pc' = "rewritten"
    /\ UNCHANGED <<value, wire, rres, entry>>

NextCode ==
    \/ WriteReturnCode
    \/ ReadReturnCode
    \/ WriteBackReturnCode

SpecCode == InitCode /\ [][NextCode]_vars

\* The byte the specification gives each code.
StatedCodeByte(rc) ==
    CASE rc = Accepted -> 0
      [] rc = Rejected("Congestion") -> 1
      [] rc = Rejected("InvalidTopicId") -> 2
      [] rc = Rejected("NotSupported") -> 3
      [] OTHER -> rc[3]

\* The caller's code was written, and perhaps read back.
CodeWritten == pc \in {"written", "read"} /\ wres.tag = "Ok"

\* C12: a ReturnCode is written as one byte: Accepted 0, Congestion 1,
\* InvalidTopicId 2, NotSupported 3, Reserved(n) n; and for n outside 0..3,
\* reading the byte written for Reserved(n) gives Reserved(n) back.
C12_ReturnCodeBytes ==
    /\ pc # "failed"
    /\ CodeWritten => wres = Ok(<<StatedCodeByte(value)>>, 1)
    /\ (CodeWritten /\ pc = "read" /\ Len(value) = 3 /\ value[3] \notin 0..3)
          => rres = Ok(value, 1)

C12_Witness ==
    /\ pc = "read"
    /\ value = Reserved(255)
    /\ wire = <<255>>
    /\ rres = Ok(Reserved(255), 1)

\* C13: reading is the exact inverse of writing.  Every non-empty slice is
\* read successfully as a code of size 1, and writing that code gives the
\* slice's first byte; and every code a caller can construct, Reserved(n)
\* for every byte n included, is read back from the byte written for it.
C13_ReturnCodeInverse ==
    /\ (pc = "read" /\ wres = None /\ Len(wire) >= 1)
          => rres.tag = "Ok" /\ rres.size = 1
    /\ pc = "rewritten" => wres = Ok(<<wire[1]>>, 1)
    /\ (CodeWritten /\ pc = "read") => rres = Ok(value, 1)

\* The codes that no other code shares its byte with.
Unaliased(rc) == ~(Len(rc) = 3 /\ rc[3] \in 0..3)

-----------------------------------------------------------------------------
(* What a successful decode of arbitrary bytes consumed and accepted       *)
(* (SpecWire).                                                             *)

\* C14: whenever a slice is decoded as a Message, of any variant and with
\* any accepted length byte, the size the decoder reports as consumed is
\* the frame's length byte.
C14_ConsumedIsLengthByte ==
    (Framed /\ entry = "Message" /\ rres.tag = "Ok") => rres.size = LenByte

\* The variants whose decoder derives its text's length from the length byte.
TextTags == {4, 10, 12, 22}

-----------------------------------------------------------------------------
(* The length byte on encode (Spec).                                       *)

\* The value written has a text: one of the four text variants, or the
\* envelope.
HasText(v) == IsForwarded(v) \/ v.type \in {"Connect", "Register", "Publish", "PingReq"}

\* C15: the length byte of Connect, Register, Publish, PingReq and
\* ForwardedMessage is the fixed header size (6, 6, 7, 2, 3) plus the text's
\* length, computed without overflow or wraparound: for every text within
\* its capacity the write goes through, the sum fits in one byte and the
\* first byte written is that sum.
C15_LengthByteIsHeaderPlusText ==
    (HasText(value) /\ pc # "new") =>
        /\ pc # "failed"
        /\ HeaderOf(value) + Len(DecodedText(value)) < U8Modulus
        /\ pc = "written" =>
              wire[1] = HeaderOf(value) + Len(DecodedText(value))

\* The frame's size, and that of the frame nested in it, fits one byte.
SumsFit(v) ==
    IF IsForwarded(v) THEN FitsLengthByte(v.message) ELSE FitsLengthByte(v)

-----------------------------------------------------------------------------
(* Canonical frames (SpecWire).                                            *)

\* C16: a slice that is decoded as a Message m of size k is the one slice
\* of k bytes that encoding m writes: the decoder accepts no second
\* spelling of a message (no other protocol id in Connect, no other length
\* byte on a variant of fixed size).
C16_DecodeAcceptsOnlyCanonical ==
    (pc = "read" /\ entry = "Message" /\ rres.tag = "Ok") =>
        \A oc \in BOOLEAN :
            Message_try_write(rres.val, BufLen, oc) =
                Ok(SubSeq(wire, 1, rres.size), rres.size)

-----------------------------------------------------------------------------
(* Several values in one buffer (SpecStream): a caller writes m1..mk one   *)
(* after another at a running offset, then reads k values one after        *)
(* another at a running offset from 0, each as the type it wrote there.    *)
(* `value` is m1..mk, `wire` the bytes written so far; `wres` and `rres`   *)
(* are the running write and read: the offset reached in `size`, the       *)
(* offset after each call in `ends`, and in `rres.val` the values read.    *)

\* The longest sequence of values tried.
MaxStreamLen == 2

\* The caller's buffer, with room for every sequence tried.
StreamBufLen == BufLen * (MaxStreamLen + 1)

Running(v, n, e) == [tag |-> "Ok", val |-> v, size |-> n, ends |-> e]

TestClient == <<116, 101, 115, 116, 45, 99, 108, 105, 101, 110, 116>>

\* Values of fixed size, values with a text (one of them with the longest
\* text a one-byte length can frame, one with the longest text its type
\* holds), and envelopes around both.
StreamMessages ==
    {[type |-> "PingResp"],
     [type |-> "SearchGw", radius |-> 18],
     [type |-> "ConnAck", code |-> Rejected("Congestion")],
     [type |-> "ConnAck", code |-> Reserved(0)],
     [type |-> "PubAck", topic_id |-> 4660, msg_id |-> 22136,
      code |-> Reserved(255)],
     [type |-> "Connect", flags |-> 18, duration |-> 13398,
      client_id |-> TestClient],
     [type |-> "PingReq", client_id |-> <<>>],
     [type |-> "Publish", flags |-> 18, topic_id |-> 4660, msg_id |-> 22136,
      data |-> <<116, 195, 169>>],
     [type |-> "Register", topic_id |-> 4660, msg_id |-> 22136,
      topic_name |-> Fill(U8Modulus - 7, 97)],
     [type |-> "Register", topic_id |-> 4660, msg_id |-> 22136,
      topic_name |-> Fill(TopicNameCapacity, 97)],
     [ctrl |-> 0, wireless_node_id |-> <<116, 101, 115, 116>>,
      message |-> [type |-> "PingResp"]],
     [ctrl |-> 3, wireless_node_id |-> Fill(WirelessNodeIdCapacity, 97),
      message |-> [type |-> "PingReq", client_id |-> TestClient]]}

RECURSIVE Streams(_)
Streams(k) ==
    IF k = 0 THEN {<<>>}
    ELSE {Append(q, m) : q \in Streams(k - 1), m \in StreamMessages}

InitStream ==
    /\ pc = "stream"
    /\ value \in UNION {Streams(k) : k \in 1..MaxStreamLen}
    /\ wire = <<>>
    /\ wres = Running(<<>>, 0, <<>>)
    /\ rres = Running(<<>>, 0, <<>>)
    /\ entry = "none"

\* bytes.write(&mut woff, m)
StreamWrite(m, oc) ==
    Write(Ok(wire, wres.size), StreamBufLen,
          LAMBDA room :
            IF IsForwarded(m) THEN ForwardedMessage_try_write(m, room, oc)
            ELSE Message_try_write(m, room, oc))

StreamWritten(r) ==
    /\ wres' = IF r.tag = "Ok"
               THEN Running(r.val, r.size, Append(wres.ends, r.size))
               ELSE r
    /\ wire' = IF r.tag = "Ok" THEN r.val ELSE wire
    /\ pc' = IF r.tag = "Ok" THEN "stream" ELSE "failed"
    /\ UNCHANGED <<value, rres, entry>>

WriteNext ==
    /\ pc = "stream"
    /\ Len(wres.ends) < Len(value)
    /\ \E oc \in BOOLEAN :
          StreamWritten(StreamWrite(value[Len(wres.ends) + 1], oc))

\* bytes.read::<T>(&mut roff), T the type of the value written there
StreamReadAs(m, oc) ==
    IF IsForwarded(m)
    THEN Read(wire, rres.size, LAMBDA b : ForwardedMessage_try_read(b, oc))
    ELSE Read(wire, rres.size, LAMBDA b : Message_try_read(b, oc))

StreamReadDone(r) ==
    /\ rres' = IF r.tag = "Ok"
               THEN Running(Append(rres.val, r.val), rres.size + r.size,
                            Append(rres.ends, rres.size + r.size))
               ELSE r
    /\ pc' = IF r.tag = "Ok" THEN "stream" ELSE "failed"
    /\ entry' = "stream"
    /\ UNCHANGED <<value, wire, wres>>

ReadNext ==
    /\ pc = "stream"
    /\ Len(wres.ends) = Len(value)
    /\ Len(rres.ends) < Len(value)
    /\ \E oc \in BOOLEAN :
          StreamReadDone(StreamReadAs(value[Len(rres.ends) + 1], oc))

NextStream ==
    \/ WriteNext
    \/ ReadNext

SpecStream == InitStream /\ [][NextStream]_vars

\* C17: m1..mk written one after another at a running offset are read back
\* in order by k reads at a running offset from 0: no write and no read
\* fails, the i-th read returns mi and ends where the i-th write ended, so
\* the last read ends at the last write's offset.
C17_StreamRoundTrip ==
    /\ pc # "failed"
    /\ pc = "stream" =>
          \A i \in 1..Len(rres.ends) :
              /\ rres.val[i] = value[i]
              /\ rres.ends[i] = wres.ends[i]

\* A value whose frame size fits one byte and whose code, if it has one,
\* shares its byte with no other code.
Sound(m) ==
    IF IsForwarded(m) THEN FitsLengthByte(m.message)
    ELSE /\ FitsLengthByte(m)
         /\ "code" \in DOMAIN m => Unaliased(m.code)

====
